---- MODULE Spec2Model ----
(***************************************************************************)
(* Model of plugins/modules/bigip_asm_policy_import.py: one invocation of  *)
(* ModuleManager.exec_module against a BIG-IP device.                      *)
(*                                                                         *)
(* A Python dict is a TLA+ function whose domain is the set of keys that   *)
(* hold a value other than None; AnsibleF5Parameters keeps its values in a *)
(* defaultdict(lambda: None), so "key absent" and "value None" coincide    *)
(* (and _filter_params, which drops None values, is the identity here).    *)
(* A file path is a sequence of tokens, "/" being the separator.           *)
(***************************************************************************)
EXTENDS Integers, Sequences, FiniteSets, TLC

VARIABLES
    params,       \* module.params as given by the caller; never modified
    want,         \* ModuleParameters(params=module.params)._values
    check_mode,   \* module.check_mode
    pc,           \* position of the invocation in exec_module
    changes,      \* self.changes (UsableChanges)
    changed,      \* value returned by policy_import
    policy_link,  \* value returned by _get_policy_link, <<>> before
    task,         \* task id returned by inline_import, <<>> before
    log,          \* requests sent to the device, with the answers received
    result,       \* dict handed to module.exit_json, empty before
    error,        \* exception that ended the invocation, "" if none
    teem,         \* send_teem was called
    devicePolicy, \* device: items of the policy collection matching name+partition
    deviceTask,   \* device: the import task created by the POST
    otherActs     \* number of changes made to the policy by another actor

vars == <<params, want, check_mode, pc, changes, changed, policy_link, task, log, result,
          error, teem, devicePolicy, deviceTask, otherActs>>

(***************************************************************************)
(* Bounds.                                                                 *)
(***************************************************************************)
MaxPolls == 2
MaxOtherActs == 1

(***************************************************************************)
(* Values the inputs and the device's answers are drawn from.              *)
(***************************************************************************)
Codes == {200, 204, 404}
TaskIds == {"t1", "t2"}
Paths == {<<"a.xml">>, <<"/", "tmp", "/", "a.xml">>}
Inlines == {"", "<xml/>"}
DeviceLink == "https://localhost/mgmt/tm/asm/policies/A"
OtherLink == "https://localhost/mgmt/tm/asm/policies/B"
ImportLink == "https://localhost/mgmt/tm/asm/policies/C"

(***************************************************************************)
(* Class attributes of Parameters.                                         *)
(***************************************************************************)
returnables == {"name", "inline", "source", "force", "policy_type",
                "retain_inheritance_settings", "parent_policy", "base64",
                "encoding"}

api_attributes == {"file", "name", "policyType", "retainInheritanceSettings",
                   "parentPolicy", "isBase64", "applicationLanguage"}

api_map == [file |-> "inline", filename |-> "source",
            policyType |-> "policy_type",
            retainInheritanceSettings |-> "retain_inheritance_settings",
            parentPolicy |-> "parent_policy", isBase64 |-> "base64",
            applicationLanguage |-> "encoding"]

redundant == {"policy_type", "retain_inheritance_settings", "parent_policy",
              "base64", "encoding"}

OkCodes == {200, 201, 202}

(***************************************************************************)
(* Dict helpers.                                                           *)
(***************************************************************************)
EmptyDict == <<>>
Has(d, k) == k \in DOMAIN d
Put(d, k, v) == [x \in (DOMAIN d) \cup {k} |-> IF x = k THEN v ELSE d[x]]
Pop(d, k) == [x \in (DOMAIN d) \ {k} |-> d[x]]
\* truth value of a str attribute and of a path attribute: set and not empty
TruthyStr(d, k) == Has(d, k) /\ d[k] # ""
TruthyPath(d, k) == Has(d, k) /\ Len(d[k]) > 0

(***************************************************************************)
(* Helpers of module_utils.common.                                         *)
(***************************************************************************)
fq_name(partition, name) == "/" \o partition \o "/" \o name

flatten_boolean(value) == IF value = TRUE THEN "yes" ELSE "no"

(***************************************************************************)
(* Helper of module_utils.client: module_provisioned(client, 'asm') asks   *)
(* the device which modules are provisioned and looks for the module in    *)
(* the answer.                                                             *)
(***************************************************************************)
module_provisioned(reply) == reply.provisioned

\* os.path.split(path)[1]: what follows the last separator
LastSlash(path) ==
    IF \E i \in 1..Len(path) : path[i] = "/"
    THEN CHOOSE i \in 1..Len(path) :
            /\ path[i] = "/"
            /\ \A j \in (i+1)..Len(path) : path[j] # "/"
    ELSE 0

Basename(path) == SubSeq(path, LastSlash(path) + 1, Len(path))

(***************************************************************************)
(* ModuleParameters: the attributes of self.want.                          *)
(***************************************************************************)
ParentPolicyConflict_m(w) ==
    Has(w, "parent_policy") /\ w.policy_type = "security"

\* the parent_policy property raises F5ModuleError
ParentPolicyConflict(w) == Has(w, "parent_policy") /\ w.policy_type = "parent"

\* getattr(self.want, key), for a key whose value is not None
WantGet(w, key) ==
    CASE key = "parent_policy" ->
            [fullPath |-> fq_name(w.partition, w.parent_policy)]
      [] key \in {"base64", "retain_inheritance_settings"} ->
            (flatten_boolean(w[key]) = "yes")
      [] OTHER -> w[key]

ForceIsFalse_m(w) == Has(w, "force") /\ w.force = TRUE

ForceIsFalse(w) == Has(w, "force") /\ w.force = FALSE
ForceIsTrue(w) == Has(w, "force") /\ w.force = TRUE
ForceTruthy(w) == Has(w, "force") /\ w.force

(***************************************************************************)
(* ModuleManager helpers.                                                  *)
(***************************************************************************)
SetChangedOptions(w, old) ==
    LET keys == {k \in returnables : Has(w, k)}
    IN  IF keys # {} THEN [k \in keys |-> WantGet(w, k)] ELSE old

ClearChanges_keepAll(w, old) ==
    LET keys == {k \in returnables : Has(w, k)}
    IN  IF keys # {} THEN [k \in keys |-> WantGet(w, k)] ELSE old

ClearChanges(w, old) ==
    LET keys == {k \in returnables : Has(w, k) /\ k \notin redundant}
    IN  IF keys # {} THEN [k \in keys |-> WantGet(w, k)] ELSE old

\* Changes.to_return of UsableChanges
to_return(ch) == [k \in (DOMAIN ch) \cap returnables |-> ch[k]]

\* Changes.to_return of ReportableChanges(params=ch)
reportable(ch) ==
    [k \in (DOMAIN ch) \cap returnables |->
        CASE k = "parent_policy" -> ch[k].fullPath
          [] k \in {"base64", "retain_inheritance_settings"} ->
                flatten_boolean(ch[k])
          [] OTHER -> ch[k]]

\* AnsibleF5Parameters.api_params of self.changes
api_params(ch) ==
    LET PyName(a) == IF a \in DOMAIN api_map THEN api_map[a] ELSE a
    IN  [a \in {a \in api_attributes : Has(ch, PyName(a))} |-> ch[PyName(a)]]

IsOk_m(code) == code \in OkCodes \cup {404}

IsOk(code) == code \in OkCodes

ExistsResult(contents) == Has(contents, "items") /\ contents.items # <<>>

Payload_inlineAsFilename(ch, w, link) ==
    LET p0 == api_params(ch)
        p1 == Put(IF Has(p0, "file")
                  THEN Put(Pop(p0, "file"), "filename", p0.file) ELSE p0,
                  "name", fq_name(w.partition, w.name))
        p2 == IF TruthyPath(w, "source")
              THEN Put(p1, "filename", Basename(w.source)) ELSE p1
    IN  IF ForceTruthy(w)
        THEN Pop(Put(p2, "policyReference", [link |-> link]), "name")
        ELSE p2

Payload_m(ch, w, link) ==
    LET p1 == Put(api_params(ch), "name", fq_name(w.partition, w.name))
        p2 == IF TruthyPath(w, "source")
              THEN Put(p1, "filename", Basename(w.source)) ELSE p1
    IN  IF ForceTruthy(w)
        THEN Put(p2, "policyReference", [link |-> link])
        ELSE p2

\* the data inline_import posts
Payload(ch, w, link) ==
    LET p1 == Put(api_params(ch), "name", fq_name(w.partition, w.name))
        p2 == IF TruthyPath(w, "source")
              THEN Put(p1, "filename", Basename(w.source)) ELSE p1
    IN  IF ForceTruthy(w)
        THEN Pop(Put(p2, "policyReference", [link |-> link]), "name")
        ELSE p2

TaskDone_any(status) == TRUE

TaskDone_failureIgnored(status) == status = "COMPLETED"

TaskDone(status) == status \in {"COMPLETED", "FAILURE"}
TaskFailed_inverted(status) == status = "COMPLETED"

TaskFailed_m(status) == FALSE

TaskFailed(status) == status = "FAILURE"

(***************************************************************************)
(* The request log.                                                        *)
(***************************************************************************)
Exchange(kind, code, body, reply) ==
    [kind |-> kind, code |-> code, body |-> body, reply |-> reply]

Sent(kind) == {i \in 1..Len(log) : log[i].kind = kind}

Terminal == {"done", "failed"}

Fail(kind) == pc' = "failed" /\ error' = kind

\* what the device answers to GET /mgmt/tm/asm/policies/?$filter=...
PolicyQueryContents(code, withItems) ==
    IF code = 200
    THEN IF withItems \/ devicePolicy # <<>>
         THEN [items |-> devicePolicy]
         ELSE [totalItems |-> 0]
    ELSE [message |-> "error"]

PolicyQuery == [name |-> want.name, partition |-> want.partition]

(***************************************************************************)
(* Initial state: ModuleManager.__init__ on the parameters AnsibleModule   *)
(* accepted (name required, policy_type and force and partition defaulted, *)
(* source and inline mutually exclusive).                                  *)
(***************************************************************************)
Opt(S) == {<<>>} \cup {<<v>> : v \in S}

MkParams(opts) ==
    [k \in {k \in DOMAIN opts : Len(opts[k]) > 0} |-> opts[k][1]]

Init ==
    /\ \E pt \in {"security", "parent"}, frc \in BOOLEAN,
          ris \in Opt({TRUE}), pp \in Opt({"parent"}),
          b64 \in Opt({FALSE}), enc \in Opt({"utf-8"}),
          inl \in Opt(Inlines), src \in Opt(Paths) :
            /\ ~(Len(inl) > 0 /\ Len(src) > 0)
            /\ params = MkParams([name |-> <<"p1">>, partition |-> <<"Common">>,
                                  policy_type |-> <<pt>>, force |-> <<frc>>,
                                  retain_inheritance_settings |-> ris,
                                  parent_policy |-> pp, base64 |-> b64,
                                  encoding |-> enc, inline |-> inl,
                                  source |-> src])
    /\ want = params
    /\ check_mode \in BOOLEAN
    /\ pc = "start"
    /\ changes = EmptyDict
    /\ changed = FALSE
    /\ policy_link = ""
    /\ task = ""
    /\ log = <<>>
    /\ result = EmptyDict
    /\ error = ""
    /\ teem = FALSE
    /\ devicePolicy \in {<<>>, <<[selfLink |-> DeviceLink]>>}
    /\ deviceTask = [id |-> "", status |-> "NONE"]
    /\ otherActs = 0

(***************************************************************************)
(* exec_module, up to the call of policy_import: the provisioning query.   *)
(***************************************************************************)
ProvisionCheck ==
    /\ pc = "start"
    /\ \E code \in Codes, provisioned \in BOOLEAN :
         /\ log' = Append(log, Exchange("provision", code, [module |-> "asm"],
                                        [provisioned |-> provisioned]))
         /\ IF ~IsOk(code) THEN Fail("RemoteError")
            ELSE IF ~module_provisioned([provisioned |-> provisioned])
            THEN Fail("NotProvisioned")
            ELSE pc' = "policy_import" /\ error' = error
    /\ UNCHANGED <<params, want, check_mode, changes, changed, policy_link,
                   task, result, teem, devicePolicy, deviceTask, otherActs>>

(***************************************************************************)
(* policy_import, lines 407-409: _set_changed_options and the check-mode   *)
(* return.                                                                 *)
(***************************************************************************)
CheckModeReturn_m(cm) == FALSE

CheckModeReturn(cm) == cm

PolicyImportBegin ==
    /\ pc = "policy_import"
    /\ IF ParentPolicyConflict(want)
       THEN /\ Fail("ValidationError")
            /\ UNCHANGED <<changes, changed>>
       ELSE /\ changes' = SetChangedOptions(want, changes)
            /\ error' = error
            /\ IF CheckModeReturn(check_mode)
               THEN changed' = TRUE /\ pc' = "report"
               ELSE changed' = changed /\ pc' = "exists1"
    /\ UNCHANGED <<params, want, check_mode, policy_link, task, log, result,
                   teem, devicePolicy, deviceTask, otherActs>>

(***************************************************************************)
(* policy_import, lines 410-412: the first exists() and the no-op return.  *)
(***************************************************************************)
Exists1 ==
    /\ pc = "exists1"
    /\ \E code \in Codes, withItems \in BOOLEAN :
         LET contents == PolicyQueryContents(code, withItems) IN
         /\ log' = Append(log, Exchange("exists", code, PolicyQuery, contents))
         /\ IF ~IsOk(code)
            THEN Fail("RemoteError") /\ changed' = changed
            ELSE /\ error' = error
                 /\ IF ExistsResult(contents) /\ ForceIsFalse(want)
                    THEN changed' = FALSE /\ pc' = "report"
                    ELSE changed' = changed /\ pc' = "exists2"
    /\ UNCHANGED <<params, want, check_mode, changes, policy_link, task,
                   result, teem, devicePolicy, deviceTask, otherActs>>

(***************************************************************************)
(* policy_import, lines 413-419: the second exists(), the clearing of      *)
(* force, and the choice between the inline and the file import (with      *)
(* _clear_changes on the file branch).                                     *)
(***************************************************************************)
ClearForce_m(w, exists) == w

ClearForce(w, exists) ==
    IF ~exists /\ ForceIsTrue(w) THEN Pop(w, "force") ELSE w

Exists2 ==
    /\ pc = "exists2"
    /\ \E code \in Codes, withItems \in BOOLEAN :
         LET contents == PolicyQueryContents(code, withItems) IN
         /\ log' = Append(log, Exchange("exists", code, PolicyQuery, contents))
         /\ IF ~IsOk(code)
            THEN Fail("RemoteError") /\ UNCHANGED <<want, changes>>
            ELSE /\ error' = error
                 /\ want' = ClearForce(want, ExistsResult(contents))
                 /\ IF TruthyStr(want', "inline")
                    THEN changes' = changes /\ pc' = "inline_import"
                    ELSE changes' = ClearChanges(want', changes) /\ pc' = "upload"
    /\ UNCHANGED <<params, check_mode, changed, policy_link, task, result,
                   teem, devicePolicy, deviceTask, otherActs>>

(***************************************************************************)
(* import_file_to_device, lines 500-502, with upload_file_to_device.       *)
(* os.path.split(None) raises TypeError before anything is sent.           *)
(***************************************************************************)
UploadFailed_m(raised) == FALSE

UploadFailed(raised) == raised

Upload_retry ==
    /\ pc = "upload"
    /\ IF ~Has(want, "source")
       THEN Fail("TypeError") /\ log' = log
       ELSE \E raised \in BOOLEAN :
              /\ log' = Append(log, Exchange("upload", 0,
                                  [content |-> want.source,
                                   name |-> Basename(want.source)],
                                  [raised |-> raised]))
              /\ IF UploadFailed(raised) THEN UNCHANGED <<pc, error>>
                 ELSE pc' = "inline_import" /\ error' = error
    /\ UNCHANGED <<params, want, check_mode, changes, changed, policy_link,
                   task, result, teem, devicePolicy, deviceTask, otherActs>>

Upload ==
    /\ pc = "upload"
    /\ IF ~Has(want, "source")
       THEN Fail("TypeError") /\ log' = log
       ELSE \E raised \in BOOLEAN :
              /\ log' = Append(log, Exchange("upload", 0,
                                  [content |-> want.source,
                                   name |-> Basename(want.source)],
                                  [raised |-> raised]))
              /\ IF UploadFailed(raised) THEN Fail("UploadFailed")
                 ELSE pc' = "inline_import" /\ error' = error
    /\ UNCHANGED <<params, want, check_mode, changes, changed, policy_link,
                   task, result, teem, devicePolicy, deviceTask, otherActs>>

(***************************************************************************)
(* inline_import, line 469: _get_policy_link, called when force is set.    *)
(***************************************************************************)
GetPolicyLink ==
    /\ pc = "inline_import"
    /\ ForceTruthy(want)
    /\ \E code \in Codes, withItems \in BOOLEAN :
         LET contents == PolicyQueryContents(code, withItems) IN
         /\ log' = Append(log, Exchange("link", code, PolicyQuery, contents))
         /\ IF ~IsOk(code)
            THEN Fail("RemoteError") /\ policy_link' = policy_link
            ELSE IF ~Has(contents, "items")
            THEN Fail("KeyError") /\ policy_link' = policy_link
            ELSE IF Len(contents.items) = 0
            THEN Fail("IndexError") /\ policy_link' = policy_link
            ELSE /\ policy_link' = contents.items[1].selfLink
                 /\ pc' = "post"
                 /\ error' = error
    /\ UNCHANGED <<params, want, check_mode, changes, changed, task, result,
                   teem, devicePolicy, deviceTask, otherActs>>

(***************************************************************************)
(* inline_import, lines 461-477: the POST of the import task.              *)
(***************************************************************************)
SubmitTask ==
    /\ \/ pc = "post"
       \/ pc = "inline_import" /\ ~ForceTruthy(want)
    /\ \E code \in Codes, id \in TaskIds :
         /\ log' = Append(log, Exchange("submit", code,
                                        Payload(changes, want, policy_link),
                                        [id |-> id]))
         /\ IF ~IsOk(code)
            THEN Fail("RemoteError") /\ UNCHANGED <<task, deviceTask>>
            ELSE /\ task' = id
                 /\ deviceTask' = [id |-> id, status |-> "STARTED"]
                 /\ pc' = "wait"
                 /\ error' = error
    /\ UNCHANGED <<params, want, check_mode, changes, changed, policy_link,
                   result, teem, devicePolicy, otherActs>>

(***************************************************************************)
(* wait_for_task: one GET of the task per step; a status other than        *)
(* COMPLETED or FAILURE sleeps one second and polls again.                 *)
(***************************************************************************)
Poll ==
    /\ pc = "wait"
    /\ \E code \in Codes :
         /\ (IsOk(code) /\ ~TaskDone(deviceTask.status))
                => Cardinality(Sent("poll")) < MaxPolls
         /\ log' = Append(log, Exchange("poll", code, [id |-> task],
                                        [status |-> deviceTask.status,
                                         id |-> deviceTask.id]))
         /\ IF ~IsOk(code)
            THEN Fail("RemoteError") /\ changed' = changed
            ELSE IF ~TaskDone(deviceTask.status)
            THEN UNCHANGED <<pc, error, changed>>
            ELSE IF TaskFailed(deviceTask.status)
            THEN Fail("TaskFailedError") /\ changed' = changed
            ELSE changed' = TRUE /\ pc' = "report" /\ error' = error
    /\ UNCHANGED <<params, want, check_mode, changes, policy_link, task,
                   result, teem, devicePolicy, deviceTask, otherActs>>

(***************************************************************************)
(* exec_module, lines 383-389: the result and the telemetry.               *)
(***************************************************************************)
Report ==
    /\ pc = "report"
    /\ result' = Put(reportable(to_return(changes)), "changed", changed)
    /\ teem' = TRUE
    /\ pc' = "done"
    /\ UNCHANGED <<params, want, check_mode, changes, changed, policy_link,
                   task, log, error, devicePolicy, deviceTask, otherActs>>

(***************************************************************************)
(* The device runs the import task; another actor creates or deletes the   *)
(* policy while the invocation runs.                                       *)
(***************************************************************************)
DeviceTaskStep ==
    /\ deviceTask.status = "STARTED"
    /\ \E outcome \in {"COMPLETED", "FAILURE"} :
         /\ deviceTask' = [deviceTask EXCEPT !.status = outcome]
         /\ devicePolicy' = IF outcome = "COMPLETED" /\ devicePolicy = <<>>
                            THEN <<[selfLink |-> ImportLink]>>
                            ELSE devicePolicy
    /\ UNCHANGED <<params, want, check_mode, pc, changes, changed, policy_link,
                   task, log, result, error, teem, otherActs>>

OtherActor ==
    /\ pc \notin Terminal
    /\ otherActs < MaxOtherActs
    /\ otherActs' = otherActs + 1
    /\ devicePolicy' = IF devicePolicy = <<>>
                       THEN <<[selfLink |-> OtherLink]>>
                       ELSE <<>>
    /\ UNCHANGED <<params, want, check_mode, pc, changes, changed, policy_link,
                   task, log, result, error, teem, deviceTask>>

Next ==
    \/ ProvisionCheck
    \/ PolicyImportBegin
    \/ Exists1
    \/ Exists2
    \/ Upload
    \/ GetPolicyLink
    \/ SubmitTask
    \/ Poll
    \/ Report
    \/ DeviceTaskStep
    \/ OtherActor

Spec == Init /\ [][Next]_vars

(***************************************************************************)
(* The invocation is one blocking thread: whenever it has a next step, it  *)
(* takes it (the loop of wait_for_task sleeps one second and polls again). *)
(* The device runs a started import task to COMPLETED or FAILURE, and it   *)
(* can always answer a request with an accepted code: the fairness is on   *)
(* the steps of the invocation that receive such an answer.                *)
(***************************************************************************)
AllAccepted ==
    \A i \in 1..Len(log) : log[i].kind = "upload" \/ log[i].code \in OkCodes

Invocation ==
    \/ ProvisionCheck
    \/ PolicyImportBegin
    \/ Exists1
    \/ Exists2
    \/ Upload
    \/ GetPolicyLink
    \/ SubmitTask
    \/ Poll
    \/ Report

AcceptedStep == Invocation /\ AllAccepted'

FairSpec == Spec /\ WF_vars(AcceptedStep) /\ WF_vars(DeviceTaskStep)

TypeOK ==
    /\ pc \in {"start", "policy_import", "exists1", "exists2", "upload",
                "inline_import", "post", "wait", "report", "done", "failed"}
    /\ check_mode \in BOOLEAN
    /\ changed \in BOOLEAN
    /\ (pc = "failed") <=> (error # "")

(***************************************************************************)
(* Vocabulary of the properties.                                           *)
(***************************************************************************)
Mutations == Sent("upload") \cup Sent("submit") \cup Sent("poll")

\* an answer to the existence query that shows the policy
Shown(i) == log[i].code \in OkCodes /\ "items" \in DOMAIN log[i].reply
            /\ Len(log[i].reply.items) > 0

\* the policy the device had at the start is still there: it was on the
\* device during the whole invocation (a policy created later by the
\* import or by another actor carries another link)
PolicyExisted == devicePolicy = <<[selfLink |-> DeviceLink]>>

Conflict == "parent_policy" \in DOMAIN params /\ params.policy_type = "parent"

Requested == (DOMAIN params) \cap returnables

(***************************************************************************)
(* C1, as stated: when the policy exists on the device and force is false, *)
(* run sends no upload, no task submission and no poll and reports         *)
(* changed=false, in every run mode.                                       *)
(***************************************************************************)
C1_AsStated ==
    (PolicyExisted /\ params.force = FALSE)
        => /\ Mutations = {}
           /\ pc = "done" => result.changed = FALSE

(***************************************************************************)
(* C1, amended: outside check mode, when the policy exists (the first      *)
(* existence query shows it, as it does whenever the policy is on the      *)
(* device) and force is false, run sends no upload, no task submission and *)
(* no poll, stops after that one existence query and reports               *)
(* changed=false; in check mode it sends none of them either, but reports  *)
(* changed=true without asking the device whether the policy exists.       *)
(***************************************************************************)
C1_SkipOutsideCheckMode ==
    /\ (~check_mode /\ params.force = FALSE /\ Sent("exists") # {}
            /\ \E i \in Sent("exists") :
                   Shown(i) /\ \A j \in Sent("exists") : i <= j)
          => /\ Mutations = {}
             /\ Cardinality(Sent("exists")) = 1
             /\ pc \in {"report", "done"}
             /\ pc = "done" => result.changed = FALSE
    /\ (~check_mode /\ params.force = FALSE /\ PolicyExisted)
          => /\ Mutations = {}
             /\ pc = "done" => result.changed = FALSE
    /\ (check_mode /\ params.force = FALSE /\ PolicyExisted)
          => /\ Mutations = {} /\ Sent("exists") = {}
             /\ pc = "done" => result.changed = TRUE

C1_Witness ==
    /\ ~check_mode /\ params.force = FALSE /\ PolicyExisted
    /\ pc = "done" /\ result.changed = FALSE
    /\ Cardinality(Sent("exists")) = 1

(***************************************************************************)
(* C2: when the existence queries of the invocation show no policy, every  *)
(* submitted payload is a Create payload, whether force was true or false: *)
(* it carries name = /partition/name and no policyReference.               *)
(***************************************************************************)
C2_CreateWhenAbsent ==
    \A j \in Sent("submit") :
        (\A i \in Sent("exists") : ~Shown(i))
            => /\ "name" \in DOMAIN log[j].body
               /\ log[j].body.name = "/Common/p1"
               /\ "policyReference" \notin DOMAIN log[j].body

C2_Witness ==
    /\ params.force = TRUE
    /\ Sent("submit") # {}
    /\ \A i \in Sent("exists") : ~Shown(i)
    /\ devicePolicy = <<>> /\ otherActs = 0

(***************************************************************************)
(* C3: when the policy exists (both existence queries show it) and force   *)
(* is true, every submitted payload carries policyReference.link, equal to *)
(* the selfLink the device returned to the policy-link query, and has no   *)
(* name key.                                                               *)
(***************************************************************************)
C3_OverwriteByReference ==
    \A j \in Sent("submit") :
        (params.force = TRUE /\ \A i \in Sent("exists") : Shown(i))
            => /\ "policyReference" \in DOMAIN log[j].body
               /\ j > 1 /\ log[j-1].kind = "link" /\ Shown(j-1)
               /\ log[j].body.policyReference
                     = [link |-> log[j-1].reply.items[1].selfLink]
               /\ "name" \notin DOMAIN log[j].body

C3_Witness ==
    /\ params.force = TRUE
    /\ \A i \in Sent("exists") : Shown(i)
    /\ \E j \in Sent("submit") :
          log[j].body.policyReference = [link |-> DeviceLink]

(***************************************************************************)
(* C4, as stated: with parent_policy set and policy_type 'parent' the      *)
(* invocation sends no request of any kind, the provisioning query         *)
(* included, and never ends otherwise than by the validation error.        *)
(***************************************************************************)
C4_AsStated ==
    Conflict
        => /\ log = <<>>
           /\ pc \in Terminal => (pc = "failed" /\ error = "ValidationError")

(***************************************************************************)
(* C4, amended: with parent_policy set and policy_type 'parent' the        *)
(* invocation never returns a result, in normal and in check mode; the     *)
(* provisioning query is sent first, and once it has reported ASM as       *)
(* provisioned the invocation fails with the validation error before any   *)
(* other request (existence query, upload, task submission, poll) is sent. *)
(***************************************************************************)
C4_ValidationAfterProvisioning ==
    Conflict
        => /\ Len(log) <= 1
           /\ \A i \in 1..Len(log) : log[i].kind = "provision"
           /\ pc \in {"start", "policy_import", "failed"}
           /\ DOMAIN result = {} /\ DOMAIN changes = {}
           /\ error = "ValidationError" => Len(log) = 1
           /\ (pc = "failed" /\ Len(log) = 1 /\ log[1].code \in OkCodes
                  /\ log[1].reply.provisioned)
                => error = "ValidationError"

C4_Witness ==
    /\ Conflict /\ check_mode
    /\ pc = "failed" /\ error = "ValidationError"
    /\ Len(log) = 1

(***************************************************************************)
(* C5: a poll answered with status FAILURE is the last request of the      *)
(* invocation, which ends with the task-failed error and hands no result   *)
(* to the caller (no changed flag, no diff field).                         *)
(***************************************************************************)
C5_FailureIsFatal ==
    \A i \in Sent("poll") :
        (log[i].code \in OkCodes /\ log[i].reply.status = "FAILURE")
            => /\ i = Len(log)
               /\ pc = "failed" /\ error = "TaskFailedError"
               /\ DOMAIN result = {}
               /\ ~teem

C5_Witness ==
    /\ pc = "failed" /\ error = "TaskFailedError"
    /\ \E i \in Sent("poll") :
          log[i].code \in OkCodes /\ log[i].reply.status = "FAILURE"

(***************************************************************************)
(* C6: in check mode no upload, no task submission and no poll is sent,    *)
(* whatever the spec and the device state, and a returned result is        *)
(* changed=true plus exactly the requested fields with their requested     *)
(* values.                                                                 *)
(***************************************************************************)
C6_CheckModeShortCircuit ==
    check_mode
        => /\ Mutations = {}
           /\ \A i \in 1..Len(log) : log[i].kind = "provision"
           /\ pc = "done"
                => /\ result.changed = TRUE
                   /\ (DOMAIN result) \ {"changed"} = Requested
                   /\ \A k \in Requested \ {"parent_policy", "base64",
                                             "retain_inheritance_settings"} :
                          result[k] = params[k]
                   /\ "parent_policy" \in Requested
                        => result.parent_policy = "/Common/parent"

C6_Witness ==
    /\ check_mode /\ pc = "done"
    /\ devicePolicy = <<>>
    /\ "inline" \in DOMAIN result /\ result.inline = "<xml/>"

(***************************************************************************)
(* C7: for a file-based import (no inline content) every task submission   *)
(* is preceded by an upload of the source path that did not fail, no       *)
(* submission follows a failed upload, and the payload's filename is the   *)
(* base name of the uploaded path, the name the file was uploaded under.   *)
(***************************************************************************)
C7_UploadBeforeSubmit ==
    ("inline" \notin DOMAIN params \/ params.inline = "")
        => /\ \A j \in Sent("submit") :
                /\ "source" \in DOMAIN params
                /\ \E i \in Sent("upload") :
                      /\ i < j
                      /\ ~log[i].reply.raised
                      /\ log[i].body.content = params.source
                      /\ "filename" \in DOMAIN log[j].body
                      /\ log[j].body.filename = log[i].body.name
                      /\ log[j].body.filename = <<"a.xml">>
           /\ \A i \in Sent("upload") :
                log[i].reply.raised => (i = Len(log) /\ pc = "failed")

C7_Witness ==
    /\ "source" \in DOMAIN params
    /\ params.source = <<"/", "tmp", "/", "a.xml">>
    /\ \E j \in Sent("submit") : log[j].body.filename = <<"a.xml">>

(***************************************************************************)
(* C8: a non-2xx answer to the existence query, the policy-link query, the *)
(* task submission or a task poll is the last exchange of the invocation,  *)
(* which ends in error with the response as the error: no retry, no        *)
(* further request.                                                        *)
(***************************************************************************)
C8_Non2xxIsFatal ==
    \A i \in 1..Len(log) :
        (log[i].kind \in {"exists", "link", "submit", "poll"}
            /\ log[i].code \notin 200..299)
          => /\ i = Len(log)
             /\ pc = "failed" /\ error = "RemoteError"
             /\ DOMAIN result = {}

C8_Witness ==
    /\ pc = "failed" /\ error = "RemoteError"
    /\ Len(log) > 0
    /\ log[Len(log)].kind = "poll" /\ log[Len(log)].code = 404
    /\ \E i \in Sent("poll") : i < Len(log)

(***************************************************************************)
(* C9, as stated: when the policy is absent and force was requested, the   *)
(* flag is cleared and the result of the Create does not report force,     *)
(* for inline imports as well as for file-based imports.                   *)
(***************************************************************************)
C9_AsStated ==
    (pc = "done" /\ ~check_mode /\ params.force = TRUE
        /\ \A i \in Sent("exists") : ~Shown(i))
      => "force" \notin DOMAIN result

(***************************************************************************)
(* C10, as stated: a result with changed=false contains none of the        *)
(* returnable fields.                                                      *)
(***************************************************************************)
C10_AsStated ==
    (pc = "done" /\ result.changed = FALSE)
        => (DOMAIN result) \cap returnables = {}

(***************************************************************************)
(* C11: when the device answers with accepted codes and brings the import  *)
(* task to COMPLETED or FAILURE, every invocation eventually reaches a     *)
(* terminal state: Skipped or Completed (a result was returned) or Failed; *)
(* the polling loop does not run forever.                                  *)
(***************************************************************************)
C11_Terminates == <>(pc \in Terminal)

C11_Witness ==
    /\ pc = "done" /\ result.changed = TRUE
    /\ \E i \in Sent("poll") :
          /\ i < Len(log)
          /\ log[i].code \in OkCodes /\ log[i].reply.status = "STARTED"

(***************************************************************************)
(* C12: outside check mode, changed=true is set or reported only after     *)
(* this invocation submitted an import task that the device accepted and a *)
(* later poll of that task's id returned COMPLETED; that poll is the last  *)
(* request, so no STARTED or FAILURE answer stands behind changed=true.    *)
(***************************************************************************)
C12_ChangedOnlyAfterCompleted ==
    (~check_mode /\ (changed \/ (pc = "done" /\ result.changed)))
        => \E j \in Sent("submit") :
              /\ log[j].code \in OkCodes
              /\ Len(log) > j
              /\ log[Len(log)].kind = "poll"
              /\ log[Len(log)].code \in OkCodes
              /\ log[Len(log)].body.id = log[j].reply.id
              /\ log[Len(log)].reply.status = "COMPLETED"
              /\ \A i \in Sent("poll") :
                    (log[i].code \in OkCodes /\ i < Len(log))
                        => log[i].reply.status = "STARTED"

C12_Witness ==
    /\ ~check_mode /\ pc = "done" /\ result.changed = TRUE
    /\ Cardinality(Sent("poll")) >= 2
    /\ "source" \in DOMAIN params

(***************************************************************************)
(* C13, as stated: the invocation leaves the Polling state only when a     *)
(* poll response is non-2xx or carries status COMPLETED or FAILURE.        *)
(***************************************************************************)
C13_AsStated ==
    (Sent("poll") # {} /\ pc # "wait")
        => /\ log[Len(log)].kind = "poll"
           /\ \/ log[Len(log)].code \notin 200..299
              \/ log[Len(log)].reply.status \in {"COMPLETED", "FAILURE"}

(***************************************************************************)
(* C13, amended: the polling loop has no timeout and no poll limit: the    *)
(* invocation leaves the Polling state only when a poll response has a     *)
(* code other than 200, 201 or 202 or carries status COMPLETED or FAILURE; *)
(* after any number of consecutive responses with an accepted code and any *)
(* other status it is still in Polling, and every such response is         *)
(* followed by another poll of the same task id.                           *)
(***************************************************************************)
C13_PollsUntilTerminalStatus ==
    /\ (Sent("poll") # {} /\ pc # "wait")
          => /\ log[Len(log)].kind = "poll"
             /\ \/ log[Len(log)].code \notin OkCodes
                \/ log[Len(log)].reply.status \in {"COMPLETED", "FAILURE"}
    /\ \A i \in Sent("poll") :
          (log[i].code \in OkCodes
              /\ log[i].reply.status \notin {"COMPLETED", "FAILURE"})
            => IF i = Len(log)
               THEN pc = "wait"
               ELSE /\ log[i+1].kind = "poll"
                    /\ log[i+1].body.id = log[i].body.id

C13_Witness ==
    /\ pc = "wait"
    /\ Cardinality(Sent("poll")) >= 2
    /\ \A i \in Sent("poll") :
          log[i].code \in OkCodes /\ log[i].reply.status = "STARTED"

(***************************************************************************)
(* C14: every invocation follows the state machine                         *)
(* Init -> ExistenceChecked -> {Skipped | Uploading? -> TaskSubmitted ->   *)
(* Polling -> {Completed | Failed}}: an answered existence query precedes  *)
(* any upload and any task submission, at most one upload and at most one  *)
(* submission are sent, the upload comes before the submission, every poll *)
(* follows an accepted submission and polls the id it returned, and no     *)
(* request is sent once a terminal state is reached.                       *)
(***************************************************************************)
RequestOrder ==
    /\ \A j \in Sent("upload") \cup Sent("submit") :
          \E i \in Sent("exists") : i < j /\ log[i].code \in OkCodes
    /\ Cardinality(Sent("upload")) <= 1
    /\ Cardinality(Sent("submit")) <= 1
    /\ \A u \in Sent("upload"), j \in Sent("submit") : u < j
    /\ \A p \in Sent("poll") :
          \E j \in Sent("submit") :
             /\ j < p
             /\ log[j].code \in OkCodes
             /\ log[p].body.id = log[j].reply.id

C14_StateMachine ==
    [][RequestOrder' /\ (pc \in Terminal => (log' = log /\ pc' = pc))]_vars

C14_Witness ==
    /\ pc = "done"
    /\ Sent("upload") # {} /\ Sent("submit") # {}
    /\ Cardinality(Sent("poll")) >= 2
    /\ \A p \in Sent("poll") : log[p].body.id = "t2"

(***************************************************************************)
(* C15, as stated: an invocation that returns no result has failed with    *)
(* one of the errors of the taxonomy, each an F5ModuleError that main      *)
(* turns into fail_json: the remote error (the provisioning and upload     *)
(* failures are reported the same way and counted with it), the            *)
(* task-failed error or the validation error; no other failure is          *)
(* reachable, whatever the device answers to the successive queries and    *)
(* also when neither source nor inline is given.                           *)
(***************************************************************************)
C15_AsStated ==
    pc = "failed"
        => error \in {"RemoteError", "NotProvisioned", "UploadFailed",
                      "TaskFailedError", "ValidationError"}

(***************************************************************************)
(* C16, as stated: the decision rests on one consistent observation of the *)
(* policy's existence, also when another actor creates or deletes the      *)
(* policy meanwhile: no Create payload (name, no policyReference) is       *)
(* submitted after an existence query of the invocation showed the policy  *)
(* with force=false, and no task is submitted after two existence answers  *)
(* that contradict each other.                                             *)
(***************************************************************************)
C16_AsStated ==
    \A j \in Sent("submit") :
        /\ (params.force = FALSE /\ \E i \in Sent("exists") : i < j /\ Shown(i))
              => ~("name" \in DOMAIN log[j].body
                     /\ "policyReference" \notin DOMAIN log[j].body)
        /\ \A i1, i2 \in Sent("exists") :
              (i1 < j /\ i2 < j) => (Shown(i1) <=> Shown(i2))

(***************************************************************************)
(* C17: a file-based import drops the options that only take effect for    *)
(* inline imports: its payload holds filename and either name or           *)
(* policyReference and nothing else (no policyType,                        *)
(* retainInheritanceSettings, parentPolicy, isBase64, applicationLanguage  *)
(* or file), and the result of the import reports none of policy_type,     *)
(* retain_inheritance_settings, parent_policy, base64, encoding. The       *)
(* payload of an inline import carries file and every option that was set  *)
(* under its wire name, and no key for an option that was not set.         *)
(***************************************************************************)
WireValue(a) ==
    CASE a = "parentPolicy" -> [fullPath |-> "/Common/parent"]
      [] OTHER -> params[api_map[a]]

C17_InlineOnlyOptions ==
    \A j \in Sent("submit") :
        IF "source" \in DOMAIN params
        THEN /\ "filename" \in DOMAIN log[j].body
             /\ \/ DOMAIN log[j].body = {"filename", "name"}
                \/ DOMAIN log[j].body = {"filename", "policyReference"}
             /\ pc = "done" => (DOMAIN result) \cap redundant = {}
        ELSE /\ "filename" \notin DOMAIN log[j].body
             /\ \A a \in {"file", "policyType", "retainInheritanceSettings",
                           "parentPolicy", "isBase64", "applicationLanguage"} :
                   IF api_map[a] \in DOMAIN params
                   THEN a \in DOMAIN log[j].body
                        /\ log[j].body[a] = WireValue(a)
                   ELSE a \notin DOMAIN log[j].body

C17_Witness ==
    /\ pc = "done" /\ Sent("submit") # {}
    /\ "source" \in DOMAIN params
    /\ {"retain_inheritance_settings", "parent_policy", "base64", "encoding"}
          \subseteq DOMAIN params
    /\ DOMAIN result = {"changed", "name", "source", "force"}

(***************************************************************************)
(* C18: an invocation given inline content never sends a request to the    *)
(* file-transfer upload endpoint, and the payload it submits has its file  *)
(* field equal to the inline string and no filename.                       *)
(***************************************************************************)
C18_InlineEmbedded ==
    "inline" \in DOMAIN params
        => /\ Sent("upload") = {}
           /\ \A j \in Sent("submit") :
                 /\ "file" \in DOMAIN log[j].body
                 /\ log[j].body.file = params.inline
                 /\ "filename" \notin DOMAIN log[j].body

C18_Witness ==
    /\ "inline" \in DOMAIN params /\ params.inline = "<xml/>"
    /\ pc = "done" /\ result.changed = TRUE
    /\ \E j \in Sent("submit") : log[j].body.file = "<xml/>"

====
